---- MODULE Spec2Model ----
(***************************************************************************)
(* State-machine model of useUserStakingData                               *)
(* (src/src/providers/local/staking/userUserStakingData.ts) and of the     *)
(* LiquidityGauge binding it constructs                                    *)
(* (src/src/services/balancer/contracts/contracts/liquidity-gauge.ts).     *)
(*                                                                         *)
(* JavaScript strings are sequences of one-character strings, so that      *)
(* formatting is computed and not assumed; `undefined` is Undefined.       *)
(* Reactive recomputation (computed refs, the query observers' reaction to *)
(* a changed key or a changed `enabled`) happens in the step that changes  *)
(* the ref.  A fetch is one promise: retries of the transport are inside   *)
(* it.  A query that loses its observer keeps its running fetch, and the   *)
(* result lands in the cache under that query's key.                       *)
(***************************************************************************)
EXTENDS Integers, Sequences, FiniteSets, TLC

VARIABLES
    account,          \* useWeb3().account
    poolAddress,      \* the Ref<string> handed to useUserStakingData
    isL2,             \* isL2 of useNetwork (fixed for the session)
    gaugeMembers,     \* the members an instance of LiquidityGauge has
    sharesQuery,      \* state of the query ['staking','pool','shares']
    sharesFetch,      \* the promise of getStakedShares() running for that query
    userPoolsQuery,   \* state of useUserPoolsQuery()
    stakingQueries,   \* query cache of ['staking','data',{account,userPoolIds}]
    poolsQuery,       \* state of usePoolsQuery(..., {poolIds: stakedPoolIds})
    ops               \* number of caller / environment operations so far

vars == <<account, poolAddress, isL2, gaugeMembers, sharesQuery, sharesFetch,
          userPoolsQuery, stakingQueries, poolsQuery, ops>>

-----------------------------------------------------------------------------
(* Bounds *)

\* number of operations of the caller and the environment in one behaviour
MaxOps == 2

-----------------------------------------------------------------------------
(* JavaScript values *)

Undefined == <<"undefined">>
EmptyString == <<>>
Truthy(s) == s # Undefined /\ s # EmptyString

\* a || b
OrElse(a, b) == IF Truthy(a) THEN a ELSE b

Zeros(n) == [i \in 1..n |-> "0"]

-----------------------------------------------------------------------------
(* Inputs *)

Account1 == <<"0", "x", "A", "1">>
Account2 == <<"0", "x", "B", "2">>
Accounts == {Account1, Account2}

\* String.prototype.toLowerCase on the characters the accounts use
LowerChar(c) == CASE c = "A" -> "a" [] c = "B" -> "b" [] OTHER -> c
ToLowerCase(s) == [i \in 1..Len(s) |-> LowerChar(s[i])]

Pool1 == <<"0", "x", "p", "1">>
Pool2 == <<"0", "x", "p", "2">>
PoolAddresses == {EmptyString, Pool1, Pool2}

\* getAddress of @ethersproject/address: the checksummed form of an address
ChecksumChar(c) == IF c = "p" THEN "P" ELSE c
getAddress(a) == [i \in 1..Len(a) |-> ChecksumChar(a[i])]

\* getGaugeAddress of ./staking.provider: the gauge of a (checksummed) pool
getGaugeAddress(pool) == <<"g">> \o pool

\* raw balances (wei, decimal digits) a gauge can report
RawBalances == {<<"0">>, <<"4", "2", "5">> \o Zeros(17)}

-----------------------------------------------------------------------------
(* formatUnits(balance.toString(), 18) *)

GaugeDecimals == 18

RECURSIVE StripTrailingZeros(_)
StripTrailingZeros(f) ==
    IF Len(f) > 1 /\ f[Len(f)] = "0"
    THEN StripTrailingZeros(SubSeq(f, 1, Len(f) - 1))
    ELSE f

\* ethers formatUnits: whole part, ".", fraction without trailing zeros
formatUnits(digits, decimals) ==
    LET padded == IF Len(digits) <= decimals
                  THEN Zeros(decimals + 1 - Len(digits)) \o digits
                  ELSE digits
        whole  == SubSeq(padded, 1, Len(padded) - decimals)
        frac   == SubSeq(padded, Len(padded) - decimals + 1, Len(padded))
    IN  whole \o <<".">> \o StripTrailingZeros(frac)

-----------------------------------------------------------------------------
(* The LiquidityGauge class *)

\* what `new LiquidityGauge(...)` has: the constructor's fields and the one
\* method of the class.  There is no `balance`, so `gauge.balance(...)` in
\* getStakedShares throws a TypeError and the promise rejects.
LiquidityGaugeMembers ==
    {"address", "abi", "provider", "config", "instance", "getMulticaller"}

-----------------------------------------------------------------------------
(* Query state of vue-query's useQuery, as destructured by the composable *)

NoPair == <<Undefined, Undefined>>

\* a query nobody has fetched: `none` is its absent data, `tag` says what the
\* data were read for (history, not program state)
IdleQueryOf(none, tag) ==
    [status |-> "idle", data |-> none, hasData |-> FALSE, error |-> "none",
     isFetching |-> FALSE, readFor |-> tag]

IdleQuery == IdleQueryOf(Undefined, NoPair)

\* a fetch begins: `loading` only when the query holds no data
FetchStarted(q) ==
    IF ~q.hasData
    THEN [q EXCEPT !.isFetching = TRUE, !.status = "loading", !.error = "none"]
    ELSE [q EXCEPT !.isFetching = TRUE]

FetchSucceeded(q, d, tag) ==
    [status |-> "success", data |-> d, hasData |-> TRUE, error |-> "none",
     isFetching |-> FALSE, readFor |-> tag]

\* a fetch fails: the last data stay
FetchFailed(q, e) ==
    [q EXCEPT !.status = "error", !.error = e, !.isFetching = FALSE]

isStakedSharesQueryEnabled == Truthy(poolAddress) /\ poolAddress # EmptyString

isLoadingStakedShares == sharesQuery.status = "loading"
isStakedSharesIdle == sharesQuery.status = "idle"
\* faulty variant: true during every fetch, the first one included
isRefetchingStakedShares_AnyFetch == sharesQuery.isFetching

isRefetchingStakedShares ==
    sharesQuery.isFetching /\ sharesQuery.status # "loading"
stakedSharesResponse == sharesQuery.data

\* faulty variant: falls back to the default while a fetch is in flight
stakedSharesForProvidedPool_WhileFetching ==
    IF sharesQuery.isFetching THEN <<"0">> ELSE OrElse(stakedSharesResponse, <<"0">>)

stakedSharesForProvidedPool == OrElse(stakedSharesResponse, <<"0">>)

-----------------------------------------------------------------------------
(* getStakedShares *)

NoFetch ==
    [pc |-> "none", pool |-> Undefined, gauge |-> Undefined,
     acct |-> Undefined, err |-> "none", startedFor |-> NoPair]

\* the call of getStakedShares() up to its first await
getStakedSharesCall(pool, acct) ==
    IF ~Truthy(pool)
    THEN [NoFetch EXCEPT !.pc = "rejected", !.err = "ConfigurationError",
                         !.startedFor = <<acct, pool>>]
    ELSE [NoFetch EXCEPT !.pc = "getGaugeAddress", !.pool = getAddress(pool),
                         !.startedFor = <<acct, pool>>]

\* the promise of getStakedShares() moves on: `ok` is whether the awaited
\* external read succeeds, `raw` what the gauge reports, `acct` is
\* account.value at that moment.  Gives the promise and, once it has settled,
\* its outcome.
getStakedSharesStep(f, ok, raw, acct, members) ==
    CASE f.pc = "rejected" ->
           [fetch |-> NoFetch, settled |-> "rejected", err |-> f.err,
            value |-> Undefined, pair |-> NoPair]
      [] f.pc = "getGaugeAddress" /\ ~ok ->
           [fetch |-> NoFetch, settled |-> "rejected", err |-> "TransportError",
            value |-> Undefined, pair |-> NoPair]
      [] f.pc = "getGaugeAddress" /\ ok /\ "balance" \notin members ->
           [fetch |-> NoFetch, settled |-> "rejected", err |-> "TypeError",
            value |-> Undefined, pair |-> NoPair]
      [] f.pc = "getGaugeAddress" /\ ok /\ "balance" \in members ->
           [fetch |-> [f EXCEPT !.pc = "balance", !.acct = acct,
                                !.gauge = getGaugeAddress(f.pool)],
            settled |-> "pending", err |-> "none",
            value |-> Undefined, pair |-> NoPair]
      [] f.pc = "balance" /\ ~ok ->
           [fetch |-> NoFetch, settled |-> "rejected", err |-> "TransportError",
            value |-> Undefined, pair |-> NoPair]
      [] OTHER ->
           [fetch |-> NoFetch, settled |-> "resolved", err |-> "none",
            value |-> formatUnits(raw, GaugeDecimals),
            pair |-> <<f.acct, f.pool>>]

\* the query takes the outcome of its promise
SharesQueryTakes(q, out) ==
    CASE out.settled = "resolved" -> FetchSucceeded(q, out.value, out.pair)
      [] out.settled = "rejected" -> FetchFailed(q, out.err)
      [] OTHER -> q

-----------------------------------------------------------------------------
(* PoolMembershipSource, StakeableFilter *)

\* POOLS.Stakable.AllowList
AllowList == <<"A", "C">>

\* memberships useUserPoolsQuery can deliver (ids of the pools, in order)
Memberships == {<<>>, <<"A", "B">>}

SeqToSet(q) == {q[i] : i \in 1..Len(q)}

RECURSIVE Filter(_, _)
\* the elements of q that are in S, in q's order, each once
Filter(q, S) ==
    IF q = <<>> THEN <<>>
    ELSE IF q[1] \in S
         THEN <<q[1]>> \o Filter(Tail(q), S \ {q[1]})
         ELSE Filter(Tail(q), S)

\* faulty variant: the membership is not filtered
intersection_NoFilter(a, b) == a

\* lodash intersection
intersection(a, b) == Filter(a, SeqToSet(b))

NoPools == [defined |-> FALSE, pools |-> <<>>]

UserPoolsOf(upq) == IF upq.data.defined THEN upq.data.pools ELSE <<>>
UserPoolIdsOf(upq) == [i \in 1..Len(UserPoolsOf(upq)) |-> UserPoolsOf(upq)[i].id]

userPools == UserPoolsOf(userPoolsQuery)
userPoolIds == UserPoolIdsOf(userPoolsQuery)
stakeableUserPoolIds == intersection(userPoolIds, AllowList)
isLoadingUserPools == userPoolsQuery.status = "loading"
isUserPoolsIdle == userPoolsQuery.status = "idle"

-----------------------------------------------------------------------------
(* GaugeShareSource *)

isStakingQueryEnabled == ~isL2

NoArgs == [user |-> Undefined, poolId_in |-> <<>>]
NoStakingFetch == [args |-> NoArgs, members |-> "none"]
NoStakingData == [defined |-> FALSE, gaugeShares |-> <<>>, liquidityGauges |-> <<>>]

UserPoolIdValues == {[i \in 1..Len(m) |-> m[i]] : m \in Memberships}
StakingKeys == Accounts \X UserPoolIdValues

\* faulty variant: the key leaves the account out
StakingKeyOf_NoAccount(acct, upq) == <<Account1, UserPoolIdsOf(upq)>>

\* the reactive part of the key ['staking', 'data', {account, userPoolIds}]
StakingKeyOf(acct, upq) == <<acct, UserPoolIdsOf(upq)>>
StakingKey == StakingKeyOf(account, userPoolsQuery)

\* the query object the builder returns
StakingQueryArgs(acct, upq) ==
    [user |-> ToLowerCase(acct),
     poolId_in |-> intersection(UserPoolIdsOf(upq), AllowList)]

Share(poolId, balance) == [gauge |-> [poolId |-> poolId], balance |-> balance]

ShareA150 == Share("A", <<"1", "5", "0", ".", "0">>)
ShareA7   == Share("A", <<"7", ".", "0">>)
ShareB2_5 == Share("B", <<"2", ".", "5">>)

\* what the subgraph can answer for the gaugeShares of a (lower-cased) user:
\* the first account has no stake or a stake in two pools, the second a
\* stake in one pool, through one gauge or through two gauges of that pool
GaugeShareListsOf(user) ==
    IF user = ToLowerCase(Account1)
    THEN {<<>>, <<ShareA150, ShareB2_5>>}
    ELSE {<<ShareA150>>, <<ShareA150, ShareA7>>}

GaugeShareLists == UNION {GaugeShareListsOf(ToLowerCase(a)) : a \in Accounts}

StakingResponse(shares, args) ==
    [defined |-> TRUE, gaugeShares |-> shares,
     liquidityGauges |-> [i \in 1..Len(args.poolId_in) |->
                            [poolId |-> args.poolId_in[i]]]]

stakingQuery == stakingQueries[StakingKey].q
stakingData == stakingQuery.data
isLoadingUserStakingData == stakingQuery.status = "loading"
isUserStakeDataIdle == stakingQuery.status = "idle"

UserGaugeSharesOf(data) == IF ~data.defined THEN <<>> ELSE data.gaugeShares
userGaugeShares == UserGaugeSharesOf(stakingData)

userLiquidityGauges == IF ~stakingData.defined THEN <<>> ELSE stakingData.liquidityGauges

\* faulty variant: the first entry of a poolId wins
StakedSharesMapOf_FirstWins(shares) ==
    [id \in {shares[i].gauge.poolId : i \in 1..Len(shares)} |->
        LET first == CHOOSE i \in 1..Len(shares) :
                       /\ shares[i].gauge.poolId = id
                       /\ \A j \in 1..(i - 1) : shares[j].gauge.poolId # id
        IN  shares[first].balance]

\* Object.fromEntries: one key per distinct poolId, the last entry wins
StakedSharesMapOf(shares) ==
    [id \in {shares[i].gauge.poolId : i \in 1..Len(shares)} |->
        LET last == CHOOSE i \in 1..Len(shares) :
                      /\ shares[i].gauge.poolId = id
                      /\ \A j \in (i + 1)..Len(shares) : shares[j].gauge.poolId # id
        IN  shares[last].balance]
stakedSharesMap == StakedSharesMapOf(userGaugeShares)

\* faulty variant: the ids of the stakeable gauges, not of the staked shares
StakedPoolIdsOf_FromGauges(q) ==
    IF q.status = "loading"
    THEN <<>>
    ELSE [i \in 1..Len(q.data.liquidityGauges) |->
            q.data.liquidityGauges[i].poolId]

StakedPoolIdsOf(q) ==
    \* `!userGaugeShares.value` is never true: the value is always an array
    IF q.status = "loading"
    THEN <<>>
    ELSE [i \in 1..Len(UserGaugeSharesOf(q.data)) |->
            UserGaugeSharesOf(q.data)[i].gauge.poolId]
stakedPoolIds == StakedPoolIdsOf(stakingQuery)

\* faulty variant: the enrichment query is not gated on the list
IsStakedPoolsQueryEnabledFor_Always(ids) == TRUE

IsStakedPoolsQueryEnabledFor(ids) == Len(ids) > 0
isStakedPoolsQueryEnabled == IsStakedPoolsQueryEnabledFor(stakedPoolIds)

-----------------------------------------------------------------------------
(* Decimal arithmetic of bnum (bignumber.js), on numbers with at most one    *)
(* fractional digit: a number is NaN or a count of tenths                    *)

NaN == [nan |-> TRUE, tenths |-> 0]
Tenths(n) == [nan |-> FALSE, tenths |-> n]

Digits == <<"0", "1", "2", "3", "4", "5", "6", "7", "8", "9">>
DigitVal(c) == (CHOOSE i \in 1..10 : Digits[i] = c) - 1
IsDigits(s) == s # <<>> /\ \A i \in 1..Len(s) : s[i] \in SeqToSet(Digits)

RECURSIVE DigitsToInt(_)
DigitsToInt(s) ==
    IF s = <<>> THEN 0
    ELSE 10 * DigitsToInt(SubSeq(s, 1, Len(s) - 1)) + DigitVal(s[Len(s)])

RECURSIVE IntToDigits(_)
IntToDigits(n) ==
    IF n < 10 THEN <<Digits[n + 1]>>
    ELSE IntToDigits(n \div 10) \o <<Digits[(n % 10) + 1]>>

\* new BigNumber(string)
ParseDecimal(s) ==
    LET dots == {i \in 1..Len(s) : s[i] = "."}
    IN  IF s = Undefined THEN NaN
        ELSE IF dots = {} THEN
            IF IsDigits(s) THEN Tenths(10 * DigitsToInt(s)) ELSE NaN
        ELSE LET d     == CHOOSE i \in dots : TRUE
                 whole == SubSeq(s, 1, d - 1)
                 frac  == SubSeq(s, d + 1, Len(s))
             IN  IF Cardinality(dots) = 1 /\ IsDigits(whole) /\ IsDigits(frac)
                    /\ Len(frac) = 1
                 THEN Tenths(10 * DigitsToInt(whole) + DigitVal(frac[1]))
                 ELSE NaN

bnum(n) == Tenths(10 * n)
Plus(a, b) == IF a.nan \/ b.nan THEN NaN ELSE Tenths(a.tenths + b.tenths)
Times(a, b) == IF a.nan \/ b.nan THEN NaN ELSE Tenths((a.tenths * b.tenths) \div 10)

\* BigNumber.prototype.toString
BnToString(x) ==
    IF x.nan THEN <<"N", "a", "N">>
    ELSE IF x.tenths % 10 = 0 THEN IntToDigits(x.tenths \div 10)
    ELSE IntToDigits(x.tenths \div 10) \o <<".">> \o <<Digits[(x.tenths % 10) + 1]>>

-----------------------------------------------------------------------------
(* StakedPoolEnrichment *)

\* the metadata of a pool: its id and the fiat price of one BPT
PoolPrice(id) == CASE id = "A" -> 2 [] id = "B" -> 1 [] OTHER -> 3
Pool(id) == [id |-> id, price |-> PoolPrice(id)]

NoPage == [defined |-> FALSE, pools |-> <<>>]
\* the first page of the pools whose id is among ids: each pool once
PoolsPage(ids) ==
    LET distinct == Filter(ids, SeqToSet(ids))
    IN  [defined |-> TRUE,
         pools |-> [i \in 1..Len(distinct) |-> Pool(distinct[i])]]

getBptBalanceFiatValue(pool, bpt) ==
    BnToString(Times(bnum(pool.price), ParseDecimal(bpt)))

IdlePoolsQuery(ids) == [ids |-> ids, q |-> IdleQueryOf(NoPage, <<>>)]

\* faulty variant: the result of the previous poolIds stays exposed when the
\* poolIds change
PoolsObserver_KeepsPreviousData(pq, ids) ==
    IF ids = pq.ids THEN pq
    ELSE IF IsStakedPoolsQueryEnabledFor(ids)
         THEN [ids |-> ids, q |-> FetchStarted(pq.q)]
         ELSE [ids |-> ids, q |-> [pq.q EXCEPT !.isFetching = FALSE]]

\* the observer of usePoolsQuery when its key (poolIds) or `enabled` change
PoolsObserver(pq, ids) ==
    IF ids = pq.ids THEN pq
    ELSE IF IsStakedPoolsQueryEnabledFor(ids)
         THEN [ids |-> ids, q |-> FetchStarted(IdleQueryOf(NoPage, <<>>))]
         ELSE IdlePoolsQuery(ids)

stakedPoolsResponse == poolsQuery.q.data
isLoadingStakedPools == poolsQuery.q.status = "loading"

\* faulty variant: the direct reading, when there is one, is taken as the
\* staked BPT of every pool
StakedPoolsOf_DirectReading(page, map) ==
    LET pools == IF page.defined THEN page.pools ELSE <<>>
    IN  [i \in 1..Len(pools) |->
            LET stakedBpt == OrElse(stakedSharesResponse,
                                    IF pools[i].id \in DOMAIN map
                                    THEN map[pools[i].id] ELSE Undefined)
            IN  [id |-> pools[i].id, price |-> pools[i].price,
                 shares |-> getBptBalanceFiatValue(pools[i], stakedBpt),
                 bpt |-> stakedBpt]]

StakedPoolsOf(page, map) ==
    LET pools == IF page.defined THEN page.pools ELSE <<>>
    IN  [i \in 1..Len(pools) |->
            LET stakedBpt == IF pools[i].id \in DOMAIN map
                             THEN map[pools[i].id] ELSE Undefined
            IN  [id |-> pools[i].id, price |-> pools[i].price,
                 shares |-> getBptBalanceFiatValue(pools[i], stakedBpt),
                 bpt |-> stakedBpt]]
stakedPools == StakedPoolsOf(stakedPoolsResponse, stakedSharesMap)

RECURSIVE SumShares(_, _)
SumShares(pools, acc) ==
    IF pools = <<>> THEN acc
    ELSE SumShares(Tail(pools), Plus(acc, ParseDecimal(pools[1].shares)))

\* faulty variant: `acc + shares` on the strings instead of bnum(acc).plus
TotalStakedFiatValueOf_Concat(pools) ==
    LET RECURSIVE Concat(_, _)
        Concat(q, acc) ==
            IF q = <<>> THEN acc ELSE Concat(Tail(q), acc \o q[1].shares)
    IN  Concat(pools, <<"0">>)

TotalStakedFiatValueOf(pools) == BnToString(SumShares(pools, bnum(0)))
totalStakedFiatValue == TotalStakedFiatValueOf(stakedPools)

-----------------------------------------------------------------------------
(* Construction of the composable *)

IdleStaking == [q |-> IdleQueryOf(NoStakingData, NoArgs), fetch |-> NoStakingFetch]

\* the observer of the staking query runs the fetch of query k: the builder
\* runs; `members` is the state of the membership it read (history)
StakingFetchBegins(sq, k, acct, upq) ==
    [sq EXCEPT ![k] = [q |-> FetchStarted(sq[k].q),
                       fetch |-> [args |-> StakingQueryArgs(acct, upq),
                                  members |-> upq.status]]]

\* the observer of the staking query after its key went from `old` to `new`:
\* it fetches when enabled, unless that query is being fetched already
StakingObserver(sq, old, new, acct, upq, l2) ==
    IF new # old /\ ~l2 /\ ~sq[new].q.isFetching
    THEN StakingFetchBegins(sq, new, acct, upq)
    ELSE sq

\* useUserPoolsQuery for an account: it loads
LoadingUserPools == FetchStarted(IdleQueryOf(NoPools, NoPair))

InitWith(members) ==
    /\ account = Account1
    /\ poolAddress \in {EmptyString, Pool1}
    /\ isL2 \in BOOLEAN
    /\ gaugeMembers = members
    /\ sharesQuery = IF isStakedSharesQueryEnabled
                     THEN FetchStarted(IdleQuery) ELSE IdleQuery
    /\ sharesFetch = IF isStakedSharesQueryEnabled
                     THEN getStakedSharesCall(poolAddress, account) ELSE NoFetch
    /\ userPoolsQuery = LoadingUserPools
    /\ stakingQueries =
         LET idle == [k \in StakingKeys |-> IdleStaking]
             k0   == StakingKeyOf(account, LoadingUserPools)
         IN  IF ~isL2
             THEN StakingFetchBegins(idle, k0, account, LoadingUserPools)
             ELSE idle
    /\ poolsQuery = IdlePoolsQuery(<<>>)
    /\ ops = 0

Init == InitWith(LiquidityGaugeMembers)

-----------------------------------------------------------------------------
(* Operations *)

\* the computed refs and the dependent observers follow new values of the
\* account, the membership and the staking cache
Propagate(acct, upq, sq) ==
    LET new == StakingKeyOf(acct, upq)
        sq2 == StakingObserver(sq, StakingKey, new, acct, upq, isL2)
    IN  /\ stakingQueries' = sq2
        /\ poolsQuery' = PoolsObserver(poolsQuery, StakedPoolIdsOf(sq2[new].q))

\* the observer of the shares query fetches when `enabled` turns true,
\* unless the query is being fetched already
SharesObserverFetches(wasEnabled, enabled, q) ==
    enabled /\ ~wasEnabled /\ ~q.isFetching

\* the caller changes poolAddress.value
SetPoolAddress(p) ==
    /\ ops < MaxOps
    /\ p # poolAddress
    /\ poolAddress' = p
    /\ IF SharesObserverFetches(isStakedSharesQueryEnabled,
                                Truthy(p) /\ p # EmptyString, sharesQuery)
       THEN /\ sharesQuery' = FetchStarted(sharesQuery)
            /\ sharesFetch' = getStakedSharesCall(p, account)
       ELSE UNCHANGED <<sharesQuery, sharesFetch>>
    /\ ops' = ops + 1
    /\ UNCHANGED <<account, isL2, gaugeMembers, userPoolsQuery,
                   stakingQueries, poolsQuery>>

\* the wallet changes account.value
SetAccount(a) ==
    /\ ops < MaxOps
    /\ a # account
    /\ account' = a
    /\ userPoolsQuery' = LoadingUserPools
    /\ Propagate(a, LoadingUserPools, stakingQueries)
    /\ ops' = ops + 1
    /\ UNCHANGED <<poolAddress, isL2, gaugeMembers, sharesQuery, sharesFetch>>

\* refetchStakedShares(): fetches whatever `enabled` is, unless the query is
\* being fetched already
refetchStakedShares ==
    /\ ops < MaxOps
    /\ IF ~sharesQuery.isFetching
       THEN /\ sharesQuery' = FetchStarted(sharesQuery)
            /\ sharesFetch' = getStakedSharesCall(poolAddress, account)
       ELSE UNCHANGED <<sharesQuery, sharesFetch>>
    /\ ops' = ops + 1
    /\ UNCHANGED <<account, poolAddress, isL2, gaugeMembers, userPoolsQuery,
                   stakingQueries, poolsQuery>>

\* the promise of getStakedShares() moves on and the query takes its outcome
SharesFetchStep(ok, raw) ==
    /\ sharesFetch.pc # "none"
    /\ LET out == getStakedSharesStep(sharesFetch, ok, raw, account, gaugeMembers)
       IN  /\ sharesFetch' = out.fetch
           /\ sharesQuery' = SharesQueryTakes(sharesQuery, out)
    /\ UNCHANGED <<account, poolAddress, isL2, gaugeMembers, userPoolsQuery,
                   stakingQueries, poolsQuery, ops>>

\* useUserPoolsQuery delivers the membership of the account
UserPoolsSettles(m) ==
    /\ userPoolsQuery.isFetching
    /\ LET upq == FetchSucceeded(userPoolsQuery,
                     [defined |-> TRUE, pools |-> [i \in 1..Len(m) |-> Pool(m[i])]],
                     NoPair)
       IN  /\ userPoolsQuery' = upq
           /\ Propagate(account, upq, stakingQueries)
    /\ UNCHANGED <<account, poolAddress, isL2, gaugeMembers, sharesQuery,
                   sharesFetch, ops>>

\* useUserPoolsQuery fails
UserPoolsFails ==
    /\ userPoolsQuery.isFetching
    /\ userPoolsQuery' = FetchFailed(userPoolsQuery, "TransportError")
    /\ Propagate(account, userPoolsQuery', stakingQueries)
    /\ UNCHANGED <<account, poolAddress, isL2, gaugeMembers, sharesQuery,
                   sharesFetch, ops>>

\* refetchUserStakingData(): fetches whatever `enabled` is, unless the query
\* is being fetched already
refetchUserStakingData ==
    /\ ops < MaxOps
    /\ Propagate(account, userPoolsQuery,
                 IF ~stakingQuery.isFetching
                 THEN StakingFetchBegins(stakingQueries, StakingKey, account,
                                         userPoolsQuery)
                 ELSE stakingQueries)
    /\ ops' = ops + 1
    /\ UNCHANGED <<account, poolAddress, isL2, gaugeMembers, sharesQuery,
                   sharesFetch, userPoolsQuery>>

\* the subgraph answers the fetch of query k
StakingFetchSettles(k, shares) ==
    /\ stakingQueries[k].q.isFetching
    /\ shares \in GaugeShareListsOf(stakingQueries[k].fetch.args.user)
    /\ Propagate(account, userPoolsQuery,
                 [stakingQueries EXCEPT ![k] =
                    [q |-> FetchSucceeded(@.q,
                                          StakingResponse(shares, @.fetch.args),
                                          @.fetch.args),
                     fetch |-> NoStakingFetch]])
    /\ UNCHANGED <<account, poolAddress, isL2, gaugeMembers, sharesQuery,
                   sharesFetch, userPoolsQuery, ops>>

\* the fetch of query k fails
StakingFetchFails(k) ==
    /\ stakingQueries[k].q.isFetching
    /\ Propagate(account, userPoolsQuery,
                 [stakingQueries EXCEPT ![k] =
                    [q |-> FetchFailed(@.q, "TransportError"),
                     fetch |-> NoStakingFetch]])
    /\ UNCHANGED <<account, poolAddress, isL2, gaugeMembers, sharesQuery,
                   sharesFetch, userPoolsQuery, ops>>

\* the pool-metadata query answers with the pools it was asked for
PoolsFetchSettles ==
    /\ poolsQuery.q.isFetching
    /\ poolsQuery' = [poolsQuery EXCEPT
                        !.q = FetchSucceeded(@, PoolsPage(poolsQuery.ids),
                                             poolsQuery.ids)]
    /\ UNCHANGED <<account, poolAddress, isL2, gaugeMembers, sharesQuery,
                   sharesFetch, userPoolsQuery, stakingQueries, ops>>

PoolsFetchFails ==
    /\ poolsQuery.q.isFetching
    /\ poolsQuery' = [poolsQuery EXCEPT !.q = FetchFailed(@, "TransportError")]
    /\ UNCHANGED <<account, poolAddress, isL2, gaugeMembers, sharesQuery,
                   sharesFetch, userPoolsQuery, stakingQueries, ops>>

Next ==
    \/ \E p \in PoolAddresses : SetPoolAddress(p)
    \/ \E a \in Accounts : SetAccount(a)
    \/ refetchStakedShares
    \/ \E ok \in BOOLEAN, raw \in RawBalances : SharesFetchStep(ok, raw)
    \/ \E m \in Memberships : UserPoolsSettles(m)
    \/ UserPoolsFails
    \/ refetchUserStakingData
    \/ \E k \in StakingKeys, shares \in GaugeShareLists : StakingFetchSettles(k, shares)
    \/ \E k \in StakingKeys : StakingFetchFails(k)
    \/ PoolsFetchSettles
    \/ PoolsFetchFails

Spec == Init /\ [][Next]_vars

\* the same program with a gauge binding that has the `balance` read the
\* call in getStakedShares expects, mounted with a pool address on a
\* network with staking
InitWithBalance ==
    /\ InitWith(LiquidityGaugeMembers \cup {"balance"})
    /\ poolAddress = Pool1
    /\ ~isL2
SpecWithBalance == InitWithBalance /\ [][Next]_vars

-----------------------------------------------------------------------------
(* What the composable exposes of DirectShareSource *)

SharesExposed ==
    <<stakedSharesForProvidedPool, isLoadingStakedShares, isStakedSharesIdle,
      isRefetchingStakedShares, sharesQuery.status>>

\* the promise of getStakedShares() settles in this step
SharesFetchSettlesNow == sharesFetch.pc # "none" /\ sharesFetch'.pc = "none"

-----------------------------------------------------------------------------
(* C1: a DirectShareSource fetch started for a previous (account,            *)
(* poolAddress) pair never overwrites the exposed state, and a settled      *)
(* value exposed by stakedSharesForProvidedPool was read for the current    *)
(* pair.                                                                    *)
C1_StaleFetchNeverOverwrites ==
    /\ [](sharesQuery.hasData =>
            sharesQuery.readFor = <<account, getAddress(poolAddress)>>)
    /\ [][(SharesFetchSettlesNow
            /\ sharesFetch.startedFor # <<account, poolAddress>>)
           => SharesExposed' = SharesExposed]_vars

(* C2: changing the pool address between two non-empty addresses, or the    *)
(* account, starts an on-chain read for the new pair (the finite-run part   *)
(* of: the reading of the new pair is eventually exposed).                  *)
C2_PairChangeStartsFetch ==
    [][((account' # account \/ poolAddress' # poolAddress)
        /\ Truthy(poolAddress) /\ Truthy(poolAddress'))
       => (sharesFetch'.pc # "none"
           /\ sharesFetch'.startedFor = <<account', poolAddress'>>)]_vars

(* C3: with no pool address configured, no way of invoking DirectShareSource *)
(* takes it to Loading or issues a contract read.                           *)
C3_NoLoadingWithoutPoolAddress ==
    [][(~Truthy(poolAddress) /\ ~Truthy(poolAddress') /\ ~isLoadingStakedShares)
       => (~isLoadingStakedShares'
           /\ sharesFetch'.pc \notin {"getGaugeAddress", "balance"})]_vars

(* C4: on a scaling-layer network GaugeShareSource never leaves Idle,       *)
(* stakedSharesMap is empty and totalStakedFiatValue is "0".                *)
C4_DisabledStaysIdle ==
    isL2 => /\ isUserStakeDataIdle
            /\ DOMAIN stakedSharesMap = {}
            /\ totalStakedFiatValue = <<"0">>

(* C5: once a DirectShareSource fetch has failed with no successful         *)
(* reading, stakedSharesForProvidedPool is not the default "0".             *)
C5_ErrorNotDefaulted ==
    (sharesQuery.status = "error" /\ ~sharesQuery.hasData)
        => stakedSharesForProvidedPool # <<"0">>

PoolsFetchStartsNow ==
    /\ poolsQuery'.q.isFetching
    /\ ~poolsQuery.q.isFetching \/ poolsQuery'.ids # poolsQuery.ids

(* C7: while GaugeShareSource is Loading the staked-poolId list is empty,   *)
(* StakedPoolEnrichment is disabled and no pool-metadata fetch is started. *)
C7_NoEnrichmentWhileLoading ==
    /\ [](isLoadingUserStakingData =>
            /\ stakedPoolIds = <<>>
            /\ ~isStakedPoolsQueryEnabled
            /\ ~poolsQuery.q.isFetching)
    /\ [][isLoadingUserStakingData' => ~PoolsFetchStartsNow]_vars

\* GaugeShareSource loads for a new key while shares of another key are cached
C7_Witness ==
    /\ isLoadingUserStakingData
    /\ \E k \in StakingKeys : stakingQueries[k].q.data.gaugeShares # <<>>

(* C8: while PoolMembershipSource has not loaded or has failed, the pool-id *)
(* sequence its dependents see is not the empty sequence of a loaded-empty  *)
(* membership, and no GaugeShareSource fetch is issued on its behalf.       *)
C8_UnloadedMembershipNotEmpty ==
    /\ userPoolsQuery.status # "success" => userPoolIds # <<>>
    /\ \A k \in StakingKeys :
          stakingQueries[k].q.isFetching =>
              stakingQueries[k].fetch.members = "success"

(* C9: when GaugeShareSource or StakedPoolEnrichment has failed,            *)
(* stakedSharesMap, stakedPools and totalStakedFiatValue are not the empty  *)
(* map, the empty list and "0".                                             *)
C9_FailureNotEmpty ==
    (stakingQuery.status = "error" \/ poolsQuery.q.status = "error")
        => /\ DOMAIN stakedSharesMap # {}
           /\ stakedPools # <<>>
           /\ totalStakedFiatValue # <<"0">>

(* C10: while staking is enabled every change of the account or of the      *)
(* stakeable-pool-id set leaves a GaugeShareSource fetch running for the    *)
(* new tuple, scoped to the current stakeable-pool-id set; every fetch asks *)
(* for the tuple of its key, and the data exposed were fetched for the      *)
(* current tuple.                                                           *)
C10_RefetchOnTupleChange ==
    /\ [](/\ stakingQuery.hasData =>
               stakingQuery.readFor = StakingQueryArgs(account, userPoolsQuery)
          /\ \A k \in StakingKeys :
               stakingQueries[k].q.isFetching =>
                   /\ stakingQueries[k].fetch.args.user = ToLowerCase(k[1])
                   /\ stakingQueries[k].fetch.args.poolId_in
                        = intersection(k[2], AllowList))
    /\ [][(~isL2 /\ (account' # account
                     \/ stakeableUserPoolIds' # stakeableUserPoolIds))
           => /\ stakingQueries'[StakingKey'].q.isFetching
              /\ stakingQueries'[StakingKey'].fetch.args
                   = StakingQueryArgs(account', userPoolsQuery')]_vars

\* the account was switched and switched back: the data cached for the first
\* tuple are exposed again while the data of the second are cached
C10_Witness ==
    /\ ops = 2 /\ account = Account1
    /\ stakingQuery.hasData
    /\ \E k \in StakingKeys : k[1] = Account2 /\ stakingQueries[k].q.hasData

-----------------------------------------------------------------------------
\* the poolIds of the gauge shares exposed, in the order of the shares
userGaugeSharePoolIds ==
    [i \in 1..Len(userGaugeShares) |-> userGaugeShares[i].gauge.poolId]

\* StakedPoolEnrichment is fetching for the staked pools of the current list
PoolsFetchIsForCurrentShares ==
    /\ stakingQuery.hasData
    /\ userGaugeShares # <<>>
    /\ poolsQuery.ids # <<>>
    /\ poolsQuery.ids = userGaugeSharePoolIds

(* C11: a StakedPoolEnrichment fetch is issued only when the staked-poolId  *)
(* list is non-empty, hence after a GaugeShareSource fetch has settled with *)
(* at least one share, and it queries exactly the poolIds of the current    *)
(* GaugeShare list.                                                         *)
C11_EnrichmentOnlyForStakedPools ==
    /\ [](poolsQuery.q.isFetching => PoolsFetchIsForCurrentShares)
    /\ [][PoolsFetchStartsNow => PoolsFetchIsForCurrentShares']_vars

\* membership [A, B], allow-list [A, C], gaugeShares [{A, 150.0}]: the
\* enrichment fetch in flight asks for [A] only
C11_Witness ==
    /\ userPoolIds = <<"A", "B">>
    /\ stakeableUserPoolIds = <<"A">>
    /\ userGaugeShares = <<ShareA150>>
    /\ poolsQuery.q.isFetching
    /\ poolsQuery.ids = <<"A">>

-----------------------------------------------------------------------------
(* C12 as stated: stakedSharesMap has exactly one entry per distinct poolId *)
(* of the GaugeShare list exposed, no other entries, and for every share of *)
(* the list, also one whose poolId occurs in another share, the entry of    *)
(* its poolId equals that share's balance.                                  *)
C12_EntryEqualsEveryShare ==
    /\ DOMAIN stakedSharesMap = SeqToSet(userGaugeSharePoolIds)
    /\ \A i \in 1..Len(userGaugeShares) :
          stakedSharesMap[userGaugeShares[i].gauge.poolId]
              = userGaugeShares[i].balance

(* C12: stakedSharesMap has exactly one entry per distinct poolId of the    *)
(* GaugeShare list exposed and no other entries, and the entry of a poolId  *)
(* equals the balance of the last share of the list with that poolId (of    *)
(* the only such share when poolIds are unique).                            *)
C12_EntryEqualsLastShare ==
    /\ DOMAIN stakedSharesMap = SeqToSet(userGaugeSharePoolIds)
    /\ \A i \in 1..Len(userGaugeShares) :
          (\A j \in (i + 1)..Len(userGaugeShares) :
              userGaugeSharePoolIds[j] # userGaugeSharePoolIds[i])
          => stakedSharesMap[userGaugeSharePoolIds[i]]
                = userGaugeShares[i].balance

\* two shares of pool A are exposed: the map holds the balance of the second
C12_Witness ==
    /\ userGaugeShares = <<ShareA150, ShareA7>>
    /\ DOMAIN stakedSharesMap = {"A"}
    /\ stakedSharesMap["A"] = ShareA7.balance

-----------------------------------------------------------------------------
\* the shares of the first n staked pools, in tenths
RECURSIVE SharesTenths(_, _)
SharesTenths(pools, n) ==
    IF n = 0 THEN 0
    ELSE ParseDecimal(pools[n].shares).tenths + SharesTenths(pools, n - 1)

\* the decimal sum of the shares field over the entries of pools
DecimalSumOfShares(pools) ==
    IF \E i \in 1..Len(pools) : ParseDecimal(pools[i].shares).nan
    THEN BnToString(NaN)
    ELSE BnToString(Tenths(SharesTenths(pools, Len(pools))))

\* the orders the entries of pools can be put in
Reorderings(pools) ==
    {[i \in 1..Len(pools) |-> pools[p[i]]] :
        p \in {f \in [1..Len(pools) -> 1..Len(pools)] :
                  \A i, j \in 1..Len(pools) : f[i] = f[j] => i = j}}

(* C13: in every reachable state totalStakedFiatValue is the decimal sum of *)
(* the shares of the entries of stakedPools, "0" when there is none, and    *)
(* it is the same for every order of the entries.                           *)
C13_TotalIsDecimalSum ==
    /\ totalStakedFiatValue = DecimalSumOfShares(stakedPools)
    /\ stakedPools = <<>> => totalStakedFiatValue = <<"0">>
    /\ \A r \in Reorderings(stakedPools) :
          TotalStakedFiatValueOf(r) = totalStakedFiatValue

\* two staked pools worth 300 and 2.5
C13_Witness ==
    /\ Len(stakedPools) = 2
    /\ stakedPools[1].shares = <<"3", "0", "0">>
    /\ stakedPools[2].shares = <<"2", ".", "5">>
    /\ totalStakedFiatValue = <<"3", "0", "2", ".", "5">>

-----------------------------------------------------------------------------
\* what stakedSharesMap, stakedPools and totalStakedFiatValue are computed
\* from: the gauge shares and the enrichment page exposed
GaugeDerivedInputs == <<userGaugeShares, stakedPoolsResponse>>

\* stakedPools holds the pools of the enrichment page with the balances of
\* stakedSharesMap, and nothing of the direct reading
StakedPoolsFromGaugeData ==
    LET sp    == stakedPools
        map   == stakedSharesMap
        pools == stakedPoolsResponse.pools
    IN  /\ Len(sp) = Len(pools)
        /\ \A i \in 1..Len(sp) :
              /\ sp[i].id = pools[i].id
              /\ sp[i].id \in DOMAIN map
              /\ sp[i].bpt = map[sp[i].id]
              /\ sp[i].shares = getBptBalanceFiatValue(pools[i], map[sp[i].id])

-----------------------------------------------------------------------------
(* C15: a DirectShareSource fetch for a configured pool address resolves    *)
(* the gauge address, reads the balance of the account from the gauge and   *)
(* converts it with the 18-decimal scale; it ends in an error state only    *)
(* when an external read failed (or no pool address was configured), and a  *)
(* reading it settles with is a converted balance of the gauge.             *)
C15_SettlesWhenReadsSucceed ==
    /\ sharesQuery.status = "error"
          => sharesQuery.error \in {"TransportError", "ConfigurationError"}
    /\ sharesQuery.hasData
          => sharesQuery.data
               \in {formatUnits(raw, GaugeDecimals) : raw \in RawBalances}

-----------------------------------------------------------------------------
\* allow-lists a deployment can configure: none, the one of this model, and
\* the same ids in another order with a repetition
AllowLists == {<<>>, AllowList, <<"C", "A", "A">>}

(* C16: stakeableUserPoolIds is in every state a subset of the membership   *)
(* ids and of the allow-list and contains every id present in both, for     *)
(* whatever allow-list is configured, and it is empty when the allow-list   *)
(* is empty.                                                                *)
C16_StakeableIsIntersection ==
    /\ SeqToSet(stakeableUserPoolIds) \subseteq SeqToSet(userPoolIds)
    /\ SeqToSet(stakeableUserPoolIds) \subseteq SeqToSet(AllowList)
    /\ SeqToSet(userPoolIds) \cap SeqToSet(AllowList)
          \subseteq SeqToSet(stakeableUserPoolIds)
    /\ \A al \in AllowLists :
          SeqToSet(intersection(userPoolIds, al))
              = SeqToSet(userPoolIds) \cap SeqToSet(al)
    /\ intersection(userPoolIds, <<>>) = <<>>

\* the account is in pools A and B: A is stakeable, B is not allow-listed
\* and the allow-listed C is not one of its pools
C16_Witness ==
    /\ userPoolsQuery.status = "success"
    /\ userPoolIds = <<"A", "B">>
    /\ stakeableUserPoolIds = <<"A">>

-----------------------------------------------------------------------------
(* C17: in every reachable state each entry of stakedPools has a poolId     *)
(* that is a key of the current stakedSharesMap and its bpt is the current  *)
(* map value of that poolId; the enrichment result stakedPools is built     *)
(* from was fetched for the poolIds of the current GaugeShare list, never   *)
(* for those of an older list, and there is none while GaugeShareSource is  *)
(* loading.                                                                 *)
C17_StakedPoolsOfCurrentShares ==
    /\ \A i \in 1..Len(stakedPools) :
          /\ stakedPools[i].id \in DOMAIN stakedSharesMap
          /\ stakedPools[i].bpt = stakedSharesMap[stakedPools[i].id]
    /\ stakedPoolsResponse.defined =>
          /\ ~isLoadingUserStakingData
          /\ poolsQuery.q.readFor = userGaugeSharePoolIds

\* the second account's shares of pool A, where the balance of the map is
\* that of the second share: stakedPools carries that balance
C17_Witness ==
    /\ account = Account2
    /\ userGaugeShares = <<ShareA150, ShareA7>>
    /\ Len(stakedPools) = 1
    /\ stakedPools[1].id = "A"
    /\ stakedPools[1].bpt = ShareA7.balance
    /\ \E k \in StakingKeys :
          k[1] = Account1 /\ stakingQueries[k].q.data.gaugeShares # <<>>

-----------------------------------------------------------------------------
====
